---- MODULE Spec2Model ----
(***************************************************************************)
(* Hidden maze game: the ray-casting visibility system (RaycastSystem) and *)
(* its bounded result cache.                                               *)
(*                                                                         *)
(* Numbers.  JavaScript numbers are modelled in fixed point: a length of   *)
(* one pixel is Unit model units, so every coordinate, distance and cell   *)
(* size below is an integer number of units.  rayStep is held in           *)
(* hundredths (10 is the default 0.1), angles in hundredths of a degree,   *)
(* cos/sin in hundredths.                                                  *)
(***************************************************************************)
EXTENDS Integers, Sequences, FiniteSets, TLC

VARIABLES
    config,         \* this.config: rayCount, maxRayDistance, rayStep, fov
    visiblePoints,  \* this.visiblePoints: sequence of points
    visibleCells,   \* this.visibleCells: a REFERENCE to a Set object of heap
    cache,          \* this.cache: Map in insertion order, a sequence of entries
    heap,           \* the Set objects reachable from the system: ref -> set of cells
    maze,           \* the wall grid handed to update / castRay
    cellSize,       \* the cell size handed to update / castRay (units)
    lastOp,         \* the call that produced this state, with its arguments
    rays,           \* the ray point lists (rayPoints) computed by that call
    seen,           \* history: the result of the first update at each cache key
                    \* since the cache was last cleared, in order of first update
    inserted,       \* history: the keys now cached, in the order update stored them
    gameConfig,     \* Game this.config: mazeSize, moveSpeed, playerRadius (the cell
                    \* size is cellSize above, the maze is maze above)
    player,         \* Game this.player: x, y, prevX, prevY, radius
    exploredCells,  \* Game this.exploredCells: set of cells
    visitedCells,   \* Game this.visitedCells: set of cells
    state,          \* Game this.state: isRunning, isPaused, isGameOver, isVictory
    moveInput,      \* Game this.moveInput: up, down, left, right
    eventListeners, \* Game this.eventListeners: event -> sequence of callbacks
    call,           \* the Game method that produced this state and what it returned
    notified        \* the callback invocations that method made, in order

raycastVars == <<config, visiblePoints, visibleCells, cache, heap, maze, cellSize,
                 lastOp, rays, seen, inserted>>
gameVars == <<gameConfig, player, exploredCells, visitedCells, state, moveInput,
              eventListeners, call, notified>>
vars == <<raycastVars, gameVars>>

-----------------------------------------------------------------------------
(* Fixed-point scale and small helpers *)

Unit == 10 * 100                \* model units per pixel

Px(n) == n * Unit

Min(a, b) == IF a < b THEN a ELSE b
Max(a, b) == IF a > b THEN a ELSE b

\* JavaScript's % : the result has the sign of the dividend
Rem(a, b) == IF a >= 0 THEN a % b ELSE 0 - ((0 - a) % b)

\* Math.floor(a / b) for b > 0
FloorDiv(a, b) == a \div b

Last(s) == s[Len(s)]

-----------------------------------------------------------------------------
(* The wall grid (Maze collaborator): horizontal walls are indexed by      *)
(* (row, col) with row in 0..height, col in 0..width-1; vertical walls by  *)
(* (row, col) with row in 0..height-1, col in 0..width.                    *)

getSize(m) == [width |-> m.width, height |-> m.height]

getWall(m, orientation, row, col) ==
    IF orientation = "horizontal"
    THEN IF row < 0 \/ row > m.height \/ col < 0 \/ col >= m.width
         THEN TRUE
         ELSE <<row, col>> \in m.horizontal
    ELSE IF row < 0 \/ row >= m.height \/ col < 0 \/ col > m.width
         THEN TRUE
         ELSE <<row, col>> \in m.vertical

\* the outer boundary of a w x h grid
BorderH(w, h) == {<<r, c>> : r \in {0, h}, c \in 0..(w - 1)}
BorderV(w, h) == {<<r, c>> : r \in 0..(h - 1), c \in {0, w}}

MakeMaze(w, h, hin, vin) ==
    [width |-> w, height |-> h,
     horizontal |-> BorderH(w, h) \cup hin,
     vertical |-> BorderV(w, h) \cup vin]

-----------------------------------------------------------------------------
(* Math.cos / Math.sin, in hundredths, of an angle in hundredths of a      *)
(* degree (Bhaskara's rational approximation; exact at multiples of 90     *)
(* and at 30 and 150 degrees).                                             *)

HalfTurn == 180 * 100

SinHalf(a) ==                   \* 0 <= a <= HalfTurn
    LET p == (a * (HalfTurn - a)) \div 100
        den == 4050000 - p
    IN  (400 * p + den \div 2) \div den

Sin100(a) ==
    LET b == a % (2 * HalfTurn)
    IN  IF b <= HalfTurn THEN SinHalf(b) ELSE 0 - SinHalf(b - HalfTurn)

Cos100(a) == Sin100(a + HalfTurn \div 2)

-----------------------------------------------------------------------------
(* RaycastSystem.isPointInWall *)

InGrid(m, cellX, cellY) ==
    ~(cellX < 0 \/ cellX >= getSize(m).width \/ cellY < 0 \/ cellY >= getSize(m).height)

\* isPointInWall as it would be without the test that the cell is in the grid
isPointInWallNoBounds(x, y, m, cs) ==
    LET cellX == FloorDiv(x, cs)
        cellY == FloorDiv(y, cs)
        remX == Rem(x, cs)
        remY == Rem(y, cs)
    IN  IF 10 * remY < cs /\ getWall(m, "horizontal", cellY, cellX) THEN TRUE
        ELSE IF 10 * remY > 9 * cs /\ getWall(m, "horizontal", cellY + 1, cellX) THEN TRUE
        ELSE IF 10 * remX < cs /\ getWall(m, "vertical", cellY, cellX) THEN TRUE
        ELSE IF 10 * remX > 9 * cs /\ getWall(m, "vertical", cellY, cellX + 1) THEN TRUE
        ELSE FALSE

isPointInWall(x, y, m, cs) ==
    LET cellX == FloorDiv(x, cs)
        cellY == FloorDiv(y, cs)
        \* relX = (x % cs) / cs ; relX < 0.1 iff 10 * (x % cs) < cs
        remX == Rem(x, cs)
        remY == Rem(y, cs)
    IN  IF ~InGrid(m, cellX, cellY) THEN TRUE
        ELSE IF 10 * remY < cs /\ getWall(m, "horizontal", cellY, cellX) THEN TRUE
        ELSE IF 10 * remY > 9 * cs /\ getWall(m, "horizontal", cellY + 1, cellX) THEN TRUE
        ELSE IF 10 * remX < cs /\ getWall(m, "vertical", cellY, cellX) THEN TRUE
        ELSE IF 10 * remX > 9 * cs /\ getWall(m, "vertical", cellY, cellX + 1) THEN TRUE
        ELSE FALSE

-----------------------------------------------------------------------------
(* RaycastSystem.castRay *)

\* maxDistance = maxRayDistance * cellSize ; step = rayStep * cellSize
MaxDistance(cfg, cs) == cfg.maxRayDistance * cs
StepLen(cfg, cs) == (cfg.rayStep * cs) \div 100

\* one coordinate increment dir * step, dir in hundredths
Advance(dir, step) == (dir * step) \div 100

\* The loop of castRay, round by round.  Round k (k = 1, 2, ...) of a loop
\* entered at (currentX, currentY, distance) tests the distance reached by
\* round k - 1, steps to the k-th point, ends the loop without recording it
\* when the point is in a wall, records it otherwise and ends the loop when
\* its cell is outside the grid.  MarchRounds gives the points recorded by
\* rounds lo..hi and whether the loop ended in them; the rounds are split in
\* halves so that the evaluation does not nest once per point.  lead is 0 for
\* the loop as written.
RECURSIVE MarchRounds(_, _, _, _, _, _, _, _, _, _, _, _)
MarchRounds(lo, hi, lead, currentX, currentY, distance, incX, incY, step, maxDistance, m, cs) ==
    IF lo = hi
    THEN LET nx == currentX + lo * incX
             ny == currentY + lo * incY
             nd == distance + lo * step
         IN  IF ~(nd - step + lead < maxDistance) THEN [points |-> <<>>, ended |-> TRUE]
             ELSE IF isPointInWall(nx, ny, m, cs) THEN [points |-> <<>>, ended |-> TRUE]
             ELSE [points |-> <<[x |-> nx, y |-> ny, distance |-> nd]>>,
                   ended |-> ~InGrid(m, FloorDiv(nx, cs), FloorDiv(ny, cs))]
    ELSE CHOOSE r \in
             {IF first.ended THEN first
              ELSE CHOOSE both \in
                       {[points |-> first.points \o rest.points, ended |-> rest.ended] :
                            rest \in {MarchRounds((lo + hi) \div 2 + 1, hi, lead, currentX,
                                                  currentY, distance, incX, incY, step,
                                                  maxDistance, m, cs)}} : TRUE :
                  first \in {MarchRounds(lo, (lo + hi) \div 2, lead, currentX, currentY,
                                         distance, incX, incY, step, maxDistance, m, cs)}} :
             TRUE

\* the number of rounds after which the test of the loop fails at the latest
RoundsLeft(distance, step, maxDistance) ==
    IF distance < maxDistance THEN (maxDistance - distance + step - 1) \div step + 1
    ELSE 1

\* the loop as it would be if it stopped before the step that reaches maxDistance
MarchShort(currentX, currentY, distance, dirX, dirY, step, maxDistance, m, cs, points) ==
    points \o MarchRounds(1, RoundsLeft(distance, step, maxDistance), step,
                          currentX, currentY, distance, Advance(dirX, step),
                          Advance(dirY, step), step, maxDistance, m, cs).points

March(currentX, currentY, distance, dirX, dirY, step, maxDistance, m, cs, points) ==
    points \o MarchRounds(1, RoundsLeft(distance, step, maxDistance), 0,
                          currentX, currentY, distance, Advance(dirX, step),
                          Advance(dirY, step), step, maxDistance, m, cs).points

castRay(cfg, startX, startY, angle, m, cs) ==
    March(startX, startY, 0, Cos100(angle), Sin100(angle),
          StepLen(cfg, cs), MaxDistance(cfg, cs), m, cs, <<>>)

-----------------------------------------------------------------------------
(* RaycastSystem: construction, the cache and update *)

DefaultRayCount == 360
DefaultMaxRayDistance == 10
DefaultRayStep == 10
DefaultFov == 360
CacheLimit == 100

\* constructor: each option falls back to its default when falsy (absent or 0)
Constructor(options) ==
    [rayCount |-> IF options.rayCount = 0 THEN DefaultRayCount ELSE options.rayCount,
     maxRayDistance |-> IF options.maxRayDistance = 0 THEN DefaultMaxRayDistance
                        ELSE options.maxRayDistance,
     rayStep |-> IF options.rayStep = 0 THEN DefaultRayStep ELSE options.rayStep,
     fov |-> IF options.fov = 0 THEN DefaultFov ELSE options.fov]

\* the Set created by the constructor (or any Set only this.visibleCells refers to)
Own == <<-1, -1>>

\* Number.prototype.toFixed(1) of a non-negative coordinate, in tenths of a pixel
toFixed1(x) == (10 * x + Unit \div 2) \div Unit

\* `${playerX.toFixed(1)},${playerY.toFixed(1)}`
CacheKey(playerX, playerY) == <<toFixed1(playerX), toFixed1(playerY)>>

CacheKeys(c) == {c[i].key : i \in DOMAIN c}
CacheHas(c, k) == k \in CacheKeys(c)
CacheGet(c, k) == c[CHOOSE i \in DOMAIN c : c[i].key = k]

\* angle of ray i in hundredths of a degree: i * (fov / rayCount)
RayAngle(cfg, i) == (i * cfg.fov * 100) \div cfg.rayCount

\* the rayPoints of every iteration of update's loop
Sweep(cfg, playerX, playerY, m, cs) ==
    [j \in 1..cfg.rayCount |-> castRay(cfg, playerX, playerY, RayAngle(cfg, j - 1), m, cs)]

RECURSIVE FlattenRange(_, _, _)
FlattenRange(rs, lo, hi) ==
    IF lo > hi THEN <<>>
    ELSE IF lo = hi THEN rs[lo]
    ELSE LET mid == (lo + hi) \div 2
         IN  FlattenRange(rs, lo, mid) \o FlattenRange(rs, mid + 1, hi)
Flatten(rs) == FlattenRange(rs, 1, Len(rs))

\* the cell keys `${cellX},${cellY}` of a point list
CellsOf(points, cs) ==
    {<<FloorDiv(points[i].x, cs), FloorDiv(points[i].y, cs)>> : i \in DOMAIN points}

\* Object identity.  The Set stored in the cache entry of key k is named k; a Set
\* that only this.visibleCells refers to is named Own.  Live(...) renames the
\* Set visibleCells refers to when its entry has left the cache and drops the
\* Sets nothing refers to any more.
LiveRef(vc, c) == IF vc \in {c[i].cells : i \in DOMAIN c} THEN vc ELSE Own
LiveHeap(vc, h, c) ==
    [r \in {c[i].cells : i \in DOMAIN c} \cup {LiveRef(vc, c)} |->
        IF r = Own THEN h[vc] ELSE h[r]]

\* the value of the Set this.visibleCells refers to
VisibleCellSet == heap[visibleCells]

\* lastOp.after is the key of the call before this one when that was a cache hit
NoOp(name) ==
    [op |-> name, x |-> 0, y |-> 0, key |-> Own, hit |-> FALSE, arg |-> 0, after |-> Own]

\* Store as it would be if the limit were tested before the insertion
StoreLate(c, entry) ==
    IF Len(c) > CacheLimit THEN Append(Tail(c), entry) ELSE Append(c, entry)

\* cache.set(cacheKey, ...) followed by the size limit
Store(c, entry) ==
    LET c1 == Append(c, entry)
    IN  IF Len(c1) > CacheLimit THEN Tail(c1) ELSE c1

\* the hit path as it would be in an LRU cache: the entry moves to the back
UpdateHitLRU(cacheKey) ==
    LET cached == CacheGet(cache, cacheKey)
    IN  /\ visiblePoints' = cached.points
        /\ visibleCells' = cached.cells
        /\ cache' = Append(SelectSeq(cache, LAMBDA e : e.key # cacheKey), cached)
        /\ heap' = LiveHeap(cached.cells, heap, cache)
        /\ rays' = <<>>
        /\ inserted' = inserted

\* the hit path: this.visiblePoints / this.visibleCells become the cached objects
UpdateHit(cacheKey) ==
    LET cached == CacheGet(cache, cacheKey)
    IN  /\ visiblePoints' = cached.points
        /\ visibleCells' = cached.cells
        /\ cache' = cache
        /\ heap' = LiveHeap(cached.cells, heap, cache)
        /\ rays' = <<>>
        /\ inserted' = inserted

\* the miss path: clear the Set visibleCells refers to, sweep, store copies
UpdateMiss(cacheKey, playerX, playerY) ==
    /\ rays' = Sweep(config, playerX, playerY, maze, cellSize)
    /\ visiblePoints' = Flatten(rays')
    /\ cache' = Store(cache, [key |-> cacheKey, points |-> visiblePoints',
                               cells |-> cacheKey])
    /\ visibleCells' = LiveRef(visibleCells, cache')
    /\ \E cells \in {CellsOf(visiblePoints', cellSize)} :
           \E heap1 \in {[heap EXCEPT ![visibleCells] = cells] @@ (cacheKey :> cells)} :
               heap' = LiveHeap(visibleCells, heap1, cache')
    /\ inserted' = LET i1 == Append(inserted, cacheKey)
                   IN  SelectSeq(i1, LAMBDA k : CacheHas(cache', k))

update(playerX, playerY) ==
    LET cacheKey == CacheKey(playerX, playerY)
    IN  /\ IF CacheHas(cache, cacheKey)
           THEN UpdateHit(cacheKey)
           ELSE UpdateMiss(cacheKey, playerX, playerY)
        /\ lastOp' = [op |-> "update", x |-> playerX, y |-> playerY, key |-> cacheKey,
                      hit |-> CacheHas(cache, cacheKey), arg |-> 0,
                      after |-> IF lastOp.hit THEN lastOp.key ELSE Own]
        /\ seen' = IF \E i \in DOMAIN seen : seen[i].key = cacheKey THEN seen
                   ELSE Append(seen, [key |-> cacheKey, points |-> visiblePoints',
                                      cells |-> heap'[visibleCells']])
        /\ UNCHANGED <<config, maze, cellSize>>

\* clearCache(): this.cache.clear()
Cleared ==
    /\ cache' = <<>>
    /\ visibleCells' = Own
    /\ heap' = LiveHeap(visibleCells, heap, <<>>)
    /\ inserted' = <<>>
    /\ seen' = <<>>
    /\ rays' = <<>>
    /\ UNCHANGED <<visiblePoints, maze, cellSize>>

clearCache ==
    /\ Cleared
    /\ lastOp' = NoOp("clearCache")
    /\ UNCHANGED config

MinRayCount == 36
MaxRayCount == 720
MinMaxRayDistance == 1
MaxMaxRayDistance == 20
MinFov == 45
MaxFov == 360

\* setRayCount as it would be with the lower clamp forgotten
setRayCountNoFloor(count) ==
    /\ config' = [config EXCEPT !.rayCount = Min(count, MaxRayCount)]
    /\ Cleared
    /\ lastOp' = [NoOp("setRayCount") EXCEPT !.arg = count]

setRayCount(count) ==
    /\ config' = [config EXCEPT !.rayCount = Max(MinRayCount, Min(count, MaxRayCount))]
    /\ Cleared
    /\ lastOp' = [NoOp("setRayCount") EXCEPT !.arg = count]

setMaxRayDistance(distance) ==
    /\ config' = [config EXCEPT !.maxRayDistance =
                      Max(MinMaxRayDistance, Min(distance, MaxMaxRayDistance))]
    /\ Cleared
    /\ lastOp' = [NoOp("setMaxRayDistance") EXCEPT !.arg = distance]

\* setFOV as it would be if it kept the cache when the clamped value is unchanged
setFOVIfChanged(fov) ==
    LET v == Max(MinFov, Min(fov, MaxFov))
    IN  /\ config' = [config EXCEPT !.fov = v]
        /\ lastOp' = [NoOp("setFOV") EXCEPT !.arg = fov]
        /\ IF v = config.fov
           THEN UNCHANGED <<visiblePoints, visibleCells, cache, heap, maze, cellSize,
                            rays, seen, inserted>>
           ELSE Cleared

setFOV(fov) ==
    /\ config' = [config EXCEPT !.fov = Max(MinFov, Min(fov, MaxFov))]
    /\ Cleared
    /\ lastOp' = [NoOp("setFOV") EXCEPT !.arg = fov]

\* a direct call of castRay: it returns the points and changes nothing
castRayCall(startX, startY, angle) ==
    /\ rays' = <<castRay(config, startX, startY, angle, maze, cellSize)>>
    /\ lastOp' = [NoOp("castRay") EXCEPT !.x = startX, !.y = startY, !.arg = angle]
    /\ UNCHANGED <<config, visiblePoints, visibleCells, cache, heap, maze, cellSize,
                    seen, inserted>>

\* the state right after new RaycastSystem(options), with the grid and cell size
\* its caller will hand to update
Constructed(options, m, cs) ==
    /\ config = Constructor(options)
    /\ visiblePoints = <<>>
    /\ visibleCells = Own
    /\ heap = (Own :> {})
    /\ cache = <<>>
    /\ maze = m
    /\ cellSize = cs
    /\ lastOp = NoOp("constructor")
    /\ rays = <<>>
    /\ seen = <<>>
    /\ inserted = <<>>

\* a RaycastSystem used on its own: there is no Game object
NoGame ==
    /\ gameConfig = [mazeSize |-> 0, moveSpeed |-> 0, playerRadius |-> 0]
    /\ player = [x |-> 0, y |-> 0, prevX |-> 0, prevY |-> 0, radius |-> 0]
    /\ exploredCells = {}
    /\ visitedCells = {}
    /\ state = [isRunning |-> FALSE, isPaused |-> FALSE, isGameOver |-> FALSE,
                isVictory |-> FALSE]
    /\ moveInput = [up |-> FALSE, down |-> FALSE, left |-> FALSE, right |-> FALSE]
    /\ eventListeners = [onMove |-> <<>>, onCellExplored |-> <<>>]
    /\ call = [op |-> "none", returned |-> FALSE]
    /\ notified = <<>>

-----------------------------------------------------------------------------
(* Spec: one RaycastSystem under any sequence of update, clearCache and    *)
(* setter calls, on a 3 x 3 grid of 40-pixel cells.                        *)

GridSize == 3
CellPx == 40

\* a wall between cells (0,1) and (1,1), and one under cell (2,1)
WalledMaze == MakeMaze(GridSize, GridSize, {<<2, 2>>}, {<<1, 1>>})
OpenMaze == MakeMaze(GridSize, GridSize, {}, {})
Mazes == {WalledMaze}

Options ==
    {[rayCount |-> 4, maxRayDistance |-> 2, rayStep |-> 50, fov |-> 0]}

\* the centre of cell (1,1), a point 0.02 px beside it (same cache key) and the
\* centre of cell (0,1)
Origins ==
    {<<Px(60), Px(60)>>, <<Px(60) + 20, Px(60)>>, <<Px(20), Px(60)>>}

RayCountArgs == {10, 36}
MaxRayDistanceArgs == {0, 2}
FovArgs == {10, 400}

Init == \E o \in Options, m \in Mazes : Constructed(o, m, Px(CellPx)) /\ NoGame

Next ==
    \/ \E p \in Origins : update(p[1], p[2]) /\ UNCHANGED gameVars
    \/ clearCache /\ UNCHANGED gameVars
    \/ \E count \in RayCountArgs : setRayCount(count) /\ UNCHANGED gameVars
    \/ \E distance \in MaxRayDistanceArgs : setMaxRayDistance(distance) /\ UNCHANGED gameVars
    \/ \E fov \in FovArgs : setFOV(fov) /\ UNCHANGED gameVars

Spec == Init /\ [][Next]_vars

-----------------------------------------------------------------------------
(* Claims checked under Spec *)

IsSetter(o) == o.op \in {"setRayCount", "setMaxRayDistance", "setFOV"}

\* C1: every update at a cache key leaves the same visible points and the same
\* visible cells as the first update at that key did, whatever updates at other
\* positions came in between.
CacheCorrectness ==
    lastOp.op = "update" =>
        \A i \in DOMAIN seen :
            seen[i].key = lastOp.key =>
                /\ visiblePoints = seen[i].points
                /\ VisibleCellSet = seen[i].cells

\* C5: every setter step leaves the cache empty, and the update that follows a
\* setter is a miss whose points and cells are those of a sweep with the
\* configuration the setter left.
SettersClearCache ==
    [][/\ IsSetter(lastOp') => cache' = <<>>
       /\ (IsSetter(lastOp) /\ lastOp'.op = "update") =>
              /\ ~lastOp'.hit
              /\ visiblePoints' =
                     Flatten(Sweep(config, lastOp'.x, lastOp'.y, maze, cellSize))
              /\ heap'[visibleCells'] = CellsOf(visiblePoints', cellSize)
              /\ Len(cache') = 1]_vars

\* C5 witness: setFOV(400) ran on a system that had already computed a view and
\* whose fov already was 360, and the cache is empty
SetterOnUsedSystem ==
    /\ lastOp.op = "setFOV"
    /\ lastOp.arg = 400
    /\ visiblePoints # <<>>
    /\ config.rayCount = MinRayCount
    /\ cache = <<>>

\* C17: after every update call, hit or miss, the visible-cell set is exactly
\* the set of floor-division cells of the current visible-point list.
PointCellConsistency ==
    lastOp.op = "update" => VisibleCellSet = CellsOf(visiblePoints, cellSize)

\* C18: the result of an update depends only on the origin rounded to one
\* decimal: a miss leaves the points and cells that a sweep from any other
\* origin with the same cache key gives, and a hit leaves what a sweep from
\* the queried origin gives.
QuantizedDeterminism ==
    lastOp.op = "update" =>
        /\ ~lastOp.hit =>
               \A p \in Origins :
                   CacheKey(p[1], p[2]) = lastOp.key =>
                       LET pts == Flatten(Sweep(config, p[1], p[2], maze, cellSize))
                       IN  /\ visiblePoints = pts
                           /\ VisibleCellSet = CellsOf(pts, cellSize)
        /\ lastOp.hit =>
               visiblePoints =
                   Flatten(Sweep(config, lastOp.x, lastOp.y, maze, cellSize))

-----------------------------------------------------------------------------
(* SpecConfig: construction with any options, then any sequence of setter  *)
(* calls with in-range and out-of-range arguments.                         *)

ConfigOptions ==
    {[rayCount |-> rc, maxRayDistance |-> d, rayStep |-> rs, fov |-> f] :
        rc \in {0, 4, 180}, d \in {0, 5, 30}, rs \in {0, 5}, f \in {0, 20}}

RayCountWide == {-5, 10, 36, 100, 720, 1000}
MaxRayDistanceWide == {-1, 0, 1, 7, 20, 50}
FovWide == {10, 45, 90, 360, 400}

InitConfig == \E o \in ConfigOptions : Constructed(o, OpenMaze, Px(CellPx)) /\ NoGame

NextConfig ==
    \/ \E count \in RayCountWide : setRayCount(count) /\ UNCHANGED gameVars
    \/ \E distance \in MaxRayDistanceWide : setMaxRayDistance(distance) /\ UNCHANGED gameVars
    \/ \E fov \in FovWide : setFOV(fov) /\ UNCHANGED gameVars

SpecConfig == InitConfig /\ [][NextConfig]_vars

\* C4: a setter leaves its field at min(max(arg, low), high), whatever the
\* argument; no argument is rejected.
ConfigClamping ==
    /\ lastOp.op = "setRayCount" =>
           config.rayCount = Min(Max(lastOp.arg, 36), 720)
    /\ lastOp.op = "setFOV" =>
           config.fov = Min(Max(lastOp.arg, 45), 360)
    /\ lastOp.op = "setMaxRayDistance" =>
           config.maxRayDistance = Min(Max(lastOp.arg, 1), 20)

\* C4 witness: setMaxRayDistance(50) left 20 after setRayCount and setFOV had
\* clamped too-small arguments up to 36 and 45
ClampedAtBothEnds ==
    /\ lastOp.op = "setMaxRayDistance"
    /\ lastOp.arg = 50
    /\ config.maxRayDistance = 20
    /\ config.rayCount = 36
    /\ config.fov = 45

\* C6: in every reachable state the configuration is within its ranges.
ConfigInRange ==
    /\ config.rayCount >= 36 /\ config.rayCount <= 720
    /\ config.fov >= 45 /\ config.fov <= 360
    /\ config.maxRayDistance >= 1 /\ config.maxRayDistance <= 20
    /\ config.rayStep > 0

-----------------------------------------------------------------------------
(* SpecCache: the player walks along a corridor in steps of 0.1 px, every  *)
(* step reaching a position never visited before, and may at any time jump *)
(* back to the position it started from.                                   *)

MaxWalk == 102

WalkOptions == [rayCount |-> 4, maxRayDistance |-> 1, rayStep |-> 50, fov |-> 360]

WalkPos(i) == <<Px(50) + i * (Unit \div 10), Px(60)>>

WalkTargets ==
    {WalkPos(0)} \cup (IF Len(seen) <= MaxWalk THEN {WalkPos(Len(seen))} ELSE {})

InitCache == Constructed(WalkOptions, WalledMaze, Px(CellPx)) /\ NoGame

NextCache == \E p \in WalkTargets : update(p[1], p[2]) /\ UNCHANGED gameVars

SpecCache == InitCache /\ [][NextCache]_vars

KeySeq(c) == [i \in DOMAIN c |-> c[i].key]

\* C2: the cache never holds more than 100 entries; once 101 distinct positions
\* have been updated it holds exactly 100, and right after the update at the
\* 101st distinct position the entry of the first-ever position is gone.
CacheBound ==
    /\ Len(cache) <= 100
    /\ Len(seen) >= 101 => Len(cache) = 100
    /\ (Len(seen) = 101 /\ ~lastOp.hit /\ lastOp.key = seen[101].key) =>
           ~CacheHas(cache, seen[1].key)

\* C2 witness: the 101st distinct position has just been stored
HundredAndFirstStored ==
    /\ Len(seen) = 101
    /\ lastOp.op = "update" /\ ~lastOp.hit /\ lastOp.key = seen[101].key
    /\ Len(cache) = 100
    /\ ~CacheHas(cache, seen[1].key)

\* C3: an update evicts at most one key, and only the key that was inserted
\* earliest among those cached; a full cache evicts on every miss; a hit leaves
\* the order of the cached keys as it was.
FifoEviction ==
    [][lastOp'.op = "update" =>
          LET gone == CacheKeys(cache) \ CacheKeys(cache')
          IN  /\ gone # {} => gone = {inserted[1]}
              /\ (~lastOp'.hit /\ Len(cache) = 100) => gone = {inserted[1]}
              /\ lastOp'.hit => KeySeq(cache') = KeySeq(cache)
              /\ KeySeq(cache') = inserted']_vars

\* C3 witness: the oldest key was hit, and the miss right after it evicted it
OldestEvictedAfterHit ==
    /\ lastOp.op = "update" /\ ~lastOp.hit
    /\ Len(seen) = 101
    /\ lastOp.after = seen[1].key
    /\ Len(cache) = 100
    /\ ~CacheHas(cache, seen[1].key)

-----------------------------------------------------------------------------
(* SpecRay: castRay and update on 3 x 3 grids of 10-pixel cells, for       *)
(* several step lengths, reaches, origins and directions.                  *)

\* a grid whose outer boundary is not walled
BareMaze ==
    [width |-> GridSize, height |-> GridSize, horizontal |-> {<<1, 1>>}, vertical |-> {}]

RayMazes == {WalledMaze, OpenMaze, BareMaze}

RayOptions ==
    {[rayCount |-> 4, maxRayDistance |-> d, rayStep |-> rs, fov |-> 360] :
        d \in {1, 3}, rs \in {10, 30, 50}}

RayOrigins ==
    {<<Px(15), Px(15)>>, <<Px(5), Px(15)>>, <<12500, 17300>>, <<Px(25), Px(25)>>}

\* sixteen directions, 22.5 degrees apart
Directions == 16
RayAngles == {k * (36000 \div Directions) : k \in 0..(Directions - 1)}

InitRay == \E o \in RayOptions, m \in RayMazes : Constructed(o, m, Px(10)) /\ NoGame

NextRay ==
    \/ \E p \in RayOrigins, angle \in RayAngles : castRayCall(p[1], p[2], angle) /\ UNCHANGED gameVars
    \/ update(Px(15), Px(15)) /\ UNCHANGED gameVars

SpecRay == InitRay /\ [][NextRay]_vars

GridCells(m) == (0..(m.width - 1)) \X (0..(m.height - 1))

PointCell(p, cs) == <<FloorDiv(p.x, cs), FloorDiv(p.y, cs)>>

\* C7: every point a ray records, every visible point and every visible cell
\* lies in a cell of the grid.
BoundarySafety ==
    /\ \A r \in DOMAIN rays : \A i \in DOMAIN rays[r] :
           PointCell(rays[r][i], cellSize) \in GridCells(maze)
    /\ \A i \in DOMAIN visiblePoints :
           PointCell(visiblePoints[i], cellSize) \in GridCells(maze)
    /\ VisibleCellSet \subseteq GridCells(maze)

\* C7 witness: a ray cast towards an unwalled edge of the grid recorded points
\* and stopped before its reach
RayStoppedAtOpenEdge ==
    /\ lastOp.op = "castRay"
    /\ maze = BareMaze
    /\ rays[1] # <<>>
    /\ Last(rays[1]).distance < MaxDistance(config, cellSize)

\* the point castRay would march to after point p of a ray cast at angle a
NextMarched(p, a) ==
    [x |-> p.x + Advance(Cos100(a), StepLen(config, cellSize)),
     y |-> p.y + Advance(Sin100(a), StepLen(config, cellSize))]

\* C8: no recorded point lies further than maxRayDistance * cellSize along the
\* ray, and the last recorded point is at exactly that distance unless the
\* point marched after it is occluded or out of bounds.
RayLength ==
    lastOp.op = "castRay" =>
        LET r == rays[1]
            maxDistance == config.maxRayDistance * cellSize
        IN  /\ \A i \in DOMAIN r : r[i].distance <= maxDistance
            /\ r # <<>> =>
                  \/ Last(r).distance = maxDistance
                  \/ LET n == NextMarched(Last(r), lastOp.arg)
                     IN  isPointInWall(n.x, n.y, maze, cellSize)

\* the segment from (ox, oy) to (px, py) passes from one side of the horizontal
\* line y = wy to the other, strictly between x1 and x2
CrossesH(ox, oy, px, py, wy, x1, x2) ==
    LET d == py - oy
        n == (px - ox) * (wy - oy)
    IN  /\ \/ oy < wy /\ wy < py
           \/ py < wy /\ wy < oy
        /\ IF d > 0 THEN (x1 - ox) * d < n /\ n < (x2 - ox) * d
                    ELSE (x1 - ox) * d > n /\ n > (x2 - ox) * d

\* the segment from the origin o to the point p crosses a wall that is set
CrossesSetWall(o, p, m, cs) ==
    \/ \E w \in m.horizontal :
          CrossesH(o.x, o.y, p.x, p.y, w[1] * cs, w[2] * cs, (w[2] + 1) * cs)
    \/ \E w \in m.vertical :
          CrossesH(o.y, o.x, p.y, p.x, w[2] * cs, w[1] * cs, (w[1] + 1) * cs)

\* C9: no ray records a point beyond a set wall that the ray's line crosses
\* between the origin and that point.
StopsAtFirstWall ==
    lastOp.op = "castRay" =>
        \A i \in DOMAIN rays[1] :
            ~CrossesSetWall(lastOp, rays[1][i], maze, cellSize)

-----------------------------------------------------------------------------
(* SpecScenario: the 5 x 5 maze without internal walls, 40-pixel cells,    *)
(* rayCount 4, fov 360, maxRayDistance 2, rayStep 0.1; updates at the      *)
(* centre of cell (2,2) and at two other positions.                        *)

ScenarioSize == 5

ScenarioMaze == MakeMaze(ScenarioSize, ScenarioSize, {}, {})

ScenarioOptions == [rayCount |-> 4, maxRayDistance |-> 2, rayStep |-> 10, fov |-> 360]

ScenarioOrigins ==
    {<<Px(100), Px(100)>>, <<Px(120), Px(100)>>, <<Px(20), Px(20)>>}

InitScenario == Constructed(ScenarioOptions, ScenarioMaze, Px(CellPx)) /\ NoGame

NextScenario == \E p \in ScenarioOrigins : update(p[1], p[2]) /\ UNCHANGED gameVars

SpecScenario == InitScenario /\ [][NextScenario]_vars

\* the sweep from (100,100) has just been computed
SweptFromCentre ==
    /\ lastOp.op = "update" /\ ~lastOp.hit
    /\ lastOp.x = Px(100) /\ lastOp.y = Px(100)

\* the last points of the four rays lie d pixels from (100,100) along the axes
LastPointsAt(d) ==
    /\ Len(rays) = 4
    /\ \A j \in 1..4 : rays[j] # <<>>
    /\ Last(rays[1]) = [x |-> Px(100 + d), y |-> Px(100), distance |-> Px(d)]
    /\ Last(rays[2]) = [x |-> Px(100), y |-> Px(100 + d), distance |-> Px(d)]
    /\ Last(rays[3]) = [x |-> Px(100 - d), y |-> Px(100), distance |-> Px(d)]
    /\ Last(rays[4]) = [x |-> Px(100), y |-> Px(100 - d), distance |-> Px(d)]

\* C10 as stated: each of the four rays from (100,100) ends 76 px from the origin.
ScenarioEndsAt76 == SweptFromCentre => LastPointsAt(76)

\* C10 as amended: each of the four rays from (100,100) ends 80 px from the
\* origin, the full reach of 2 cells, after 20 recorded points.
ScenarioEndsAt80 ==
    SweptFromCentre => (LastPointsAt(80) /\ \A j \in 1..4 : Len(rays[j]) = 20)

\* C10 witness: the sweep from (100,100) ran and saw the cells 0..4 of row 2
\* and of column 2
ScenarioSwept ==
    /\ SweptFromCentre
    /\ Len(visiblePoints) = 80
    /\ VisibleCellSet = {<<c, 2>> : c \in 0..4} \cup {<<2, c>> : c \in 0..4}


-----------------------------------------------------------------------------
(* Game: the player, the explored and visited cells, the game state and    *)
(* the listeners, around one RaycastSystem.  Positions, the radius and the *)
(* speed are in units, like every length above.                            *)

\* Maze.getStart, Maze.getEnd: the first and the last cell of the grid
getStart(m) == [x |-> 0, y |-> 0]
getEnd(m) == [x |-> m.width - 1, y |-> m.height - 1]

\* Maze.canMove: whether one can step from cell (cellX, cellY) to the cell dCol
\* columns and dRow rows away: both cells are in the grid and no wall lies
\* between them; a diagonal step is possible when one of the two ways round
\* the corner is
canStep(m, cellX, cellY, dCol, dRow) ==
    /\ InGrid(m, cellX, cellY)
    /\ InGrid(m, cellX + dCol, cellY + dRow)
    /\ CASE dCol = 1 /\ dRow = 0 -> ~getWall(m, "vertical", cellY, cellX + 1)
         [] dCol = -1 /\ dRow = 0 -> ~getWall(m, "vertical", cellY, cellX)
         [] dCol = 0 /\ dRow = 1 -> ~getWall(m, "horizontal", cellY + 1, cellX)
         [] dCol = 0 /\ dRow = -1 -> ~getWall(m, "horizontal", cellY, cellX)
         [] OTHER -> FALSE
canMove(m, cellX, cellY, dCol, dRow) ==
    IF dCol # 0 /\ dRow # 0
    THEN \/ canStep(m, cellX, cellY, dCol, 0) /\ canStep(m, cellX + dCol, cellY, 0, dRow)
         \/ canStep(m, cellX, cellY, 0, dRow) /\ canStep(m, cellX, cellY + dRow, dCol, 0)
    ELSE canStep(m, cellX, cellY, dCol, dRow)

\* the defaults of the Game constructor (pixels)
DefaultMoveSpeed == 5
DefaultPlayerRadius == 8
DefaultMazeSize == 15
MinMazeSize == 5
MaxMazeSize == 30

\* Game constructor: this.config (0 stands for an option that is not given)
GameConstructor(options) ==
    [mazeSize |-> IF options.mazeSize = 0 THEN DefaultMazeSize ELSE options.mazeSize,
     moveSpeed |-> IF options.moveSpeed = 0 THEN Px(DefaultMoveSpeed)
                   ELSE options.moveSpeed,
     playerRadius |-> IF options.playerRadius = 0 THEN Px(DefaultPlayerRadius)
                      ELSE options.playerRadius]

\* the options init hands to new RaycastSystem
GameRaycastOptions ==
    [rayCount |-> 180, maxRayDistance |-> 5, rayStep |-> 5, fov |-> 360]

\* a collision test that scans only the cell of (x, y)
checkWallCollisionOwnCell(x, y, radius, cs, m) ==
    LET cellX == FloorDiv(x, cs)
        cellY == FloorDiv(y, cs)
        HitsH(row, col) ==
            /\ getWall(m, "horizontal", row, col)
            /\ (IF y >= row * cs THEN y - row * cs ELSE row * cs - y) < radius
            /\ x >= col * cs /\ x <= (col + 1) * cs
        HitsV(row, col) ==
            /\ getWall(m, "vertical", row, col)
            /\ (IF x >= col * cs THEN x - col * cs ELSE col * cs - x) < radius
            /\ y >= row * cs /\ y <= (row + 1) * cs
    IN  \/ HitsH(cellY, cellX)
        \/ HitsH(cellY + 1, cellX)
        \/ HitsV(cellY, cellX)
        \/ HitsV(cellY, cellX + 1)

\* Game.checkWallCollision: the four walls of each of the nine cells around
\* the cell of (x, y)
checkWallCollision(x, y, radius, cs, m) ==
    LET cellX == FloorDiv(x, cs)
        cellY == FloorDiv(y, cs)
        HitsH(row, col) ==
            /\ getWall(m, "horizontal", row, col)
            /\ (IF y >= row * cs THEN y - row * cs ELSE row * cs - y) < radius
            /\ x >= col * cs /\ x <= (col + 1) * cs
        HitsV(row, col) ==
            /\ getWall(m, "vertical", row, col)
            /\ (IF x >= col * cs THEN x - col * cs ELSE col * cs - x) < radius
            /\ y >= row * cs /\ y <= (row + 1) * cs
    IN  \E dy \in -1..1, dx \in -1..1 :
            LET checkX == cellX + dx
                checkY == cellY + dy
            IN  \/ HitsH(checkY, checkX)
                \/ HitsH(checkY + 1, checkX)
                \/ HitsV(checkY, checkX)
                \/ HitsV(checkY, checkX + 1)

\* a test that only asks for the centre to be inside the maze
canMoveToCentreInside(x, y, radius, mazeSize, cs, m) ==
    ~(x < 0 \/ x > mazeSize * cs \/ y < 0 \/ y > mazeSize * cs)

\* Game.canMoveTo, with the radius, grid size, cell size and grid it reads
InBounds(x, y, radius, mazeSize, cs) ==
    ~(x - radius < 0 \/ x + radius > mazeSize * cs
        \/ y - radius < 0 \/ y + radius > mazeSize * cs)
canMoveTo(x, y, radius, mazeSize, cs, m) ==
    IF ~InBounds(x, y, radius, mazeSize, cs) THEN FALSE
    ELSE ~checkWallCollision(x, y, radius, cs, m)


\* Game.triggerEvent: the callbacks of the event are called in order, each in
\* its own try/catch; a callback either returns or throws.  The value is the
\* sequence of calls made.
triggerEventNoCatch(listeners, event, data) ==
    LET cbs == IF event \in DOMAIN listeners THEN listeners[event] ELSE <<>>
        upTo == IF \E i \in DOMAIN cbs : cbs[i] = "throws"
                THEN CHOOSE i \in DOMAIN cbs :
                         /\ cbs[i] = "throws"
                         /\ \A j \in 1..(i - 1) : cbs[j] # "throws"
                ELSE Len(cbs)
    IN  [i \in 1..upTo |->
            [event |-> event, listener |-> i, threw |-> cbs[i] = "throws",
             data |-> data]]
triggerEvent(listeners, event, data) ==
    LET cbs == IF event \in DOMAIN listeners THEN listeners[event] ELSE <<>>
    IN  [i \in 1..Len(cbs) |->
            [event |-> event, listener |-> i, threw |-> cbs[i] = "throws",
             data |-> data]]

\* RaycastSystem.getVisibleCells: the cells of the Set as an array.  The array
\* follows the insertion order of the Set, which the heap does not keep: the
\* model lists the cells in (x, y) order.
RECURSIVE InOrder(_)
InOrder(S) ==
    IF S = {} THEN <<>>
    ELSE LET c == CHOOSE c \in S :
                      \A d \in S : c[1] < d[1] \/ (c[1] = d[1] /\ c[2] <= d[2])
         IN  <<c>> \o InOrder(S \ {c})
getVisibleCells(cells) == InOrder(cells)

\* the loop of Game.updateVisibility over the visible cells: a cell that is
\* not explored yet is added and announced.  The value is the explored set
\* and the calls made.
RECURSIVE ExploreAnnounceAll(_, _, _, _)
ExploreAnnounceAll(cells, explored, listeners, mazeSize) ==
    IF cells = <<>> THEN [explored |-> explored, notified |-> <<>>]
    ELSE LET cell == Head(cells)
             added == explored \cup {cell}
             rest == ExploreAnnounceAll(Tail(cells), added, listeners, mazeSize)
         IN  [rest EXCEPT !.notified =
                 triggerEvent(listeners, "onCellExplored",
                     [x |-> cell[1], y |-> cell[2],
                      totalExplored |-> Cardinality(added),
                      totalCells |-> mazeSize * mazeSize]) \o @]
RECURSIVE Explore(_, _, _, _)
Explore(cells, explored, listeners, mazeSize) ==
    IF cells = <<>> THEN [explored |-> explored, notified |-> <<>>]
    ELSE LET cell == Head(cells)
             added == explored \cup {cell}
             rest == Explore(Tail(cells), added, listeners, mazeSize)
         IN  IF cell \in explored THEN rest
             ELSE [rest EXCEPT !.notified =
                      triggerEvent(listeners, "onCellExplored",
                          [x |-> cell[1], y |-> cell[2],
                           totalExplored |-> Cardinality(added),
                           totalCells |-> mazeSize * mazeSize]) \o @]


NoInput == [up |-> FALSE, down |-> FALSE, left |-> FALSE, right |-> FALSE]
NotStarted ==
    [isRunning |-> FALSE, isPaused |-> FALSE, isGameOver |-> FALSE,
     isVictory |-> FALSE]
NoListeners ==
    [onGameStart |-> <<>>, onGameOver |-> <<>>, onVictory |-> <<>>,
     onMove |-> <<>>, onCellExplored |-> <<>>]

\* the cell of a position
CellAt(x, y, cs) == <<FloorDiv(x, cs), FloorDiv(y, cs)>>

\* the pixel centre of the start cell
StartX(m, cs) == getStart(m).x * cs + cs \div 2
StartY(m, cs) == getStart(m).y * cs + cs \div 2
StartCell(m) == <<getStart(m).x, getStart(m).y>>

\* new Game(options): init with the generated maze m and no listener
\* registered (the player at the centre of the start cell, both cell sets
\* reseeded with the start cell, a new RaycastSystem and the first
\* updateVisibility, a miss of the empty cache, the state and the inputs
\* reset), followed by the addEventListener calls that register the listeners
GameConstructed(options, m, cs, listeners) ==
    /\ gameConfig = GameConstructor(options)
    /\ maze = m
    /\ cellSize = cs
    /\ config = Constructor(GameRaycastOptions)
    /\ rays = Sweep(config, StartX(m, cs), StartY(m, cs), m, cs)
    /\ visiblePoints = Flatten(rays)
    /\ visibleCells = Own
    /\ \E key \in {CacheKey(StartX(m, cs), StartY(m, cs))},
          cells \in {CellsOf(visiblePoints, cs)} :
           /\ heap = (Own :> cells) @@ (key :> cells)
           /\ cache = <<[key |-> key, points |-> visiblePoints, cells |-> key]>>
           /\ lastOp = [op |-> "update", x |-> StartX(m, cs), y |-> StartY(m, cs),
                        key |-> key, hit |-> FALSE, arg |-> 0, after |-> Own]
           /\ seen = <<[key |-> key, points |-> visiblePoints, cells |-> cells]>>
           /\ inserted = <<key>>
           /\ exploredCells = Explore(getVisibleCells(cells), {StartCell(m)},
                                      NoListeners, gameConfig.mazeSize).explored
    /\ player = [x |-> StartX(m, cs), y |-> StartY(m, cs),
                 prevX |-> StartX(m, cs), prevY |-> StartY(m, cs),
                 radius |-> gameConfig.playerRadius]
    /\ visitedCells = {StartCell(m)}
    /\ state = NotStarted
    /\ moveInput = NoInput
    /\ eventListeners = listeners
    /\ call = [op |-> "constructor", returned |-> FALSE]
    /\ notified = <<>>

\* an early return that has already saved the position as the previous one
RefusedAfterSave(name) ==
    /\ call' = [op |-> name, returned |-> FALSE]
    /\ notified' = <<>>
    /\ player' = [player EXCEPT !.prevX = player.x, !.prevY = player.y]
    /\ UNCHANGED <<raycastVars, gameConfig, exploredCells, visitedCells,
                    state, moveInput, eventListeners>>

\* a Game method that returns early: nothing changes
Refused(name) ==
    /\ call' = [op |-> name, returned |-> FALSE]
    /\ notified' = <<>>
    /\ UNCHANGED <<raycastVars, gameConfig, player, exploredCells, visitedCells,
                    state, moveInput, eventListeners>>

\* Game.start
start ==
    IF state.isRunning THEN Refused("start")
    ELSE /\ state' = [state EXCEPT !.isRunning = TRUE, !.isGameOver = FALSE,
                                   !.isVictory = FALSE]
         /\ notified' = triggerEvent(eventListeners, "onGameStart",
                            [mazeSize |-> gameConfig.mazeSize])
         /\ call' = [op |-> "start", returned |-> FALSE]
         /\ UNCHANGED <<raycastVars, gameConfig, player, exploredCells,
                         visitedCells, moveInput, eventListeners>>

\* Game.togglePause
togglePause ==
    IF ~state.isRunning \/ state.isGameOver THEN Refused("togglePause")
    ELSE /\ state' = [state EXCEPT !.isPaused = ~state.isPaused]
         /\ notified' = <<>>
         /\ call' = [op |-> "togglePause", returned |-> FALSE]
         /\ UNCHANGED <<raycastVars, gameConfig, player, exploredCells,
                         visitedCells, moveInput, eventListeners>>

\* Game.setMoveInput
setMoveInput(direction, pressed) ==
    /\ moveInput' = IF direction \in DOMAIN moveInput
                    THEN [moveInput EXCEPT ![direction] = pressed]
                    ELSE moveInput
    /\ notified' = <<>>
    /\ call' = [op |-> "setMoveInput", returned |-> FALSE]
    /\ UNCHANGED <<raycastVars, gameConfig, player, exploredCells, visitedCells,
                    state, eventListeners>>


\* 1 / Math.sqrt(2) in thousandths: the length of each component of a
\* normalised diagonal move
InvSqrt2 == 707

\* the movement vector of updatePlayerPosition, in thousandths
MoveVector(input) ==
    LET dx == (IF input.right THEN 1 ELSE 0) - (IF input.left THEN 1 ELSE 0)
        dy == (IF input.down THEN 1 ELSE 0) - (IF input.up THEN 1 ELSE 0)
    IN  IF dx # 0 /\ dy # 0 THEN [dx |-> dx * InvSqrt2, dy |-> dy * InvSqrt2]
        ELSE [dx |-> dx * 1000, dy |-> dy * 1000]

\* the position updatePlayerPosition tries
Candidate ==
    LET v == MoveVector(moveInput)
    IN  [x |-> player.x + (v.dx * gameConfig.moveSpeed) \div 1000,
         y |-> player.y + (v.dy * gameConfig.moveSpeed) \div 1000]

\* distanceToEnd < radius * 2, compared in hundredths of a pixel
AtEnd(x, y, radius, m, cs) ==
    LET end == getEnd(m)
        ex == (x - (end.x * cs + cs \div 2)) \div 10
        ey == (y - (end.y * cs + cs \div 2)) \div 10
        r2 == (2 * radius) \div 10
    IN  ex * ex + ey * ey < r2 * r2

\* Game.victory: the state it leaves and the calls it makes
Won == [isRunning |-> FALSE, isPaused |-> state.isPaused, isGameOver |-> TRUE,
        isVictory |-> TRUE]
victoryCalls(explored) ==
    triggerEvent(eventListeners, "onVictory",
        [exploredCells |-> Cardinality(explored),
         totalCells |-> gameConfig.mazeSize * gameConfig.mazeSize])

\* Game.victory called directly
victory ==
    /\ state' = Won
    /\ notified' = victoryCalls(exploredCells)
    /\ call' = [op |-> "victory", returned |-> FALSE]
    /\ UNCHANGED <<raycastVars, gameConfig, player, exploredCells, visitedCells,
                    moveInput, eventListeners>>

\* Game.gameOver
Lost == [isRunning |-> FALSE, isPaused |-> state.isPaused, isGameOver |-> TRUE,
         isVictory |-> FALSE]
gameOver ==
    /\ state' = Lost
    /\ notified' = triggerEvent(eventListeners, "onGameOver", [time |-> 0])
    /\ call' = [op |-> "gameOver", returned |-> FALSE]
    /\ UNCHANGED <<raycastVars, gameConfig, player, exploredCells, visitedCells,
                    moveInput, eventListeners>>

\* Game.updateVisibility at (x, y): the RaycastSystem is updated and the
\* visible cells it returns are explored
Found == Explore(getVisibleCells(heap'[visibleCells']), exploredCells,
                 eventListeners, gameConfig.mazeSize)

\* accepted branches that keep the visited set wrongly: one that replaces
\* the set by the new cell, one that marks the cell the player leaves
AcceptForgets(newX, newY) ==
    /\ player' = [player EXCEPT !.prevX = player.x, !.prevY = player.y,
                                !.x = newX, !.y = newY]
    /\ visitedCells' = {CellAt(newX, newY, cellSize)}
    /\ update(newX, newY)
    /\ exploredCells' = Found.explored
    /\ state' = IF AtEnd(newX, newY, player.radius, maze, cellSize) THEN Won ELSE state
    /\ notified' = Found.notified
    /\ call' = [op |-> "updatePlayerPosition", returned |-> TRUE]
    /\ UNCHANGED <<gameConfig, moveInput, eventListeners>>
AcceptMarksOld(newX, newY) ==
    /\ player' = [player EXCEPT !.prevX = player.x, !.prevY = player.y,
                                !.x = newX, !.y = newY]
    /\ visitedCells' = visitedCells \cup {CellAt(player.x, player.y, cellSize)}
    /\ update(newX, newY)
    /\ exploredCells' = Found.explored
    /\ state' = IF AtEnd(newX, newY, player.radius, maze, cellSize) THEN Won ELSE state
    /\ notified' = Found.notified
    /\ call' = [op |-> "updatePlayerPosition", returned |-> TRUE]
    /\ UNCHANGED <<gameConfig, moveInput, eventListeners>>

\* the accepted branch of updatePlayerPosition
Accept(newX, newY) ==
    /\ player' = [player EXCEPT !.prevX = player.x, !.prevY = player.y,
                                !.x = newX, !.y = newY]
    /\ visitedCells' = visitedCells \cup {CellAt(newX, newY, cellSize)}
    /\ update(newX, newY)
    /\ exploredCells' = Found.explored
    /\ LET won == AtEnd(newX, newY, player.radius, maze, cellSize)
       IN  /\ state' = IF won THEN Won ELSE state
           /\ notified' =
                  triggerEvent(eventListeners, "onMove",
                      [from |-> <<player.x, player.y>>, to |-> <<newX, newY>>])
                  \o Found.notified
                  \o (IF won THEN victoryCalls(Found.explored) ELSE <<>>)
    /\ call' = [op |-> "updatePlayerPosition", returned |-> TRUE]
    /\ UNCHANGED <<gameConfig, moveInput, eventListeners>>

\* whether updatePlayerPosition would move the player now
Accepted ==
    /\ state.isRunning /\ ~state.isPaused /\ ~state.isGameOver
    /\ MoveVector(moveInput) # [dx |-> 0, dy |-> 0]
    /\ canMoveTo(Candidate.x, Candidate.y, player.radius, gameConfig.mazeSize,
                 cellSize, maze)

\* a frame that a pause does not stop
updatePlayerPositionPaused ==
    IF ~state.isRunning \/ state.isGameOver
    THEN Refused("updatePlayerPosition")
    ELSE IF MoveVector(moveInput) = [dx |-> 0, dy |-> 0]
    THEN Refused("updatePlayerPosition")
    ELSE IF canMoveTo(Candidate.x, Candidate.y, player.radius,
                      gameConfig.mazeSize, cellSize, maze)
    THEN Accept(Candidate.x, Candidate.y)
    ELSE Refused("updatePlayerPosition")

\* Game.updatePlayerPosition
updatePlayerPosition ==
    IF ~state.isRunning \/ state.isPaused \/ state.isGameOver
    THEN Refused("updatePlayerPosition")
    ELSE IF MoveVector(moveInput) = [dx |-> 0, dy |-> 0]
    THEN Refused("updatePlayerPosition")
    ELSE IF canMoveTo(Candidate.x, Candidate.y, player.radius,
                      gameConfig.mazeSize, cellSize, maze)
    THEN Accept(Candidate.x, Candidate.y)
    ELSE Refused("updatePlayerPosition")

\* an init whose first view is the one of the maze it replaces
restartWithOldView(gc, m) ==
    /\ gameConfig' = gc
    /\ maze' = m
    /\ config' = Constructor(GameRaycastOptions)
    /\ rays' = Sweep(config', StartX(m, cellSize), StartY(m, cellSize), maze, cellSize)
    /\ visiblePoints' = Flatten(rays')
    /\ visibleCells' = Own
    /\ \E key \in {CacheKey(StartX(m, cellSize), StartY(m, cellSize))},
          cells \in {CellsOf(visiblePoints', cellSize)} :
           /\ heap' = (Own :> cells) @@ (key :> cells)
           /\ cache' = <<[key |-> key, points |-> visiblePoints', cells |-> key]>>
           /\ lastOp' = [op |-> "update", x |-> StartX(m, cellSize),
                         y |-> StartY(m, cellSize), key |-> key, hit |-> FALSE,
                         arg |-> 0, after |-> Own]
           /\ seen' = <<[key |-> key, points |-> visiblePoints', cells |-> cells]>>
           /\ inserted' = <<key>>
           /\ \E found \in {Explore(getVisibleCells(cells), {StartCell(m)},
                                     eventListeners, gc.mazeSize)} :
                  /\ exploredCells' = found.explored
                  /\ notified' = found.notified
                         \o triggerEvent(eventListeners, "onGameStart",
                                [mazeSize |-> gc.mazeSize])
    /\ player' = [x |-> StartX(m, cellSize), y |-> StartY(m, cellSize),
                  prevX |-> StartX(m, cellSize), prevY |-> StartY(m, cellSize),
                  radius |-> gc.playerRadius]
    /\ visitedCells' = {StartCell(m)}
    /\ state' = [NotStarted EXCEPT !.isRunning = TRUE]
    /\ moveInput' = NoInput
    /\ UNCHANGED <<cellSize, eventListeners>>

\* Game.restart with the maze m that generate builds: init (as in the
\* constructor, with the listeners registered by now), then start
restartWith(gc, m) ==
    /\ gameConfig' = gc
    /\ maze' = m
    /\ config' = Constructor(GameRaycastOptions)
    /\ rays' = Sweep(config', StartX(m, cellSize), StartY(m, cellSize), m, cellSize)
    /\ visiblePoints' = Flatten(rays')
    /\ visibleCells' = Own
    /\ \E key \in {CacheKey(StartX(m, cellSize), StartY(m, cellSize))},
          cells \in {CellsOf(visiblePoints', cellSize)} :
           /\ heap' = (Own :> cells) @@ (key :> cells)
           /\ cache' = <<[key |-> key, points |-> visiblePoints', cells |-> key]>>
           /\ lastOp' = [op |-> "update", x |-> StartX(m, cellSize),
                         y |-> StartY(m, cellSize), key |-> key, hit |-> FALSE,
                         arg |-> 0, after |-> Own]
           /\ seen' = <<[key |-> key, points |-> visiblePoints', cells |-> cells]>>
           /\ inserted' = <<key>>
           /\ \E found \in {Explore(getVisibleCells(cells), {StartCell(m)},
                                     eventListeners, gc.mazeSize)} :
                  /\ exploredCells' = found.explored
                  /\ notified' = found.notified
                         \o triggerEvent(eventListeners, "onGameStart",
                                [mazeSize |-> gc.mazeSize])
    /\ player' = [x |-> StartX(m, cellSize), y |-> StartY(m, cellSize),
                  prevX |-> StartX(m, cellSize), prevY |-> StartY(m, cellSize),
                  radius |-> gc.playerRadius]
    /\ visitedCells' = {StartCell(m)}
    /\ state' = [NotStarted EXCEPT !.isRunning = TRUE]
    /\ moveInput' = NoInput
    /\ UNCHANGED <<cellSize, eventListeners>>
restart(m) ==
    /\ restartWith(gameConfig, m)
    /\ call' = [op |-> "restart", returned |-> FALSE]

\* Game.setMazeSize
setMazeSize(size, m) ==
    IF size < MinMazeSize \/ size > MaxMazeSize THEN Refused("setMazeSize")
    ELSE /\ restartWith([gameConfig EXCEPT !.mazeSize = size], m)
         /\ call' = [op |-> "setMazeSize", returned |-> FALSE]


-----------------------------------------------------------------------------
(* SpecGame: one Game on a 2 x 2 maze of 40-pixel cells with a wall under  *)
(* the start cell, a speed of 30 px and a radius of 16 px, under any       *)
(* sequence of its methods; the player is followed through its first       *)
(* MaxPlaces positions in each maze, a frame towards a side of the maze    *)
(* being possible at any time.                                             *)

GameSize == 2
MaxPlaces == 2

GeneratedMazes(size) == {MakeMaze(size, size, {<<1, 0>>}, {})}

GameOptions ==
    {[mazeSize |-> GameSize, moveSpeed |-> Px(30), playerRadius |-> Px(16)]}

\* the registered callbacks: none, or for each event one that throws followed
\* by one that returns
ListenerSets ==
    {[e \in DOMAIN NoListeners |-> <<"throws", "returns">>]}

Keys == {"right", "down"}
MazeSizeArgs == {4}

\* the frame would take the player into a side of the maze
TowardsSide ==
    ~InBounds(Candidate.x, Candidate.y, player.radius, gameConfig.mazeSize, cellSize)

InitGame ==
    \E o \in GameOptions, ls \in ListenerSets :
        \E m \in GeneratedMazes(GameConstructor(o).mazeSize) :
            GameConstructed(o, m, Px(CellPx), ls)

NextGame ==
    \/ start
    \/ togglePause
    \/ \E direction \in Keys, pressed \in BOOLEAN : setMoveInput(direction, pressed)
    \/ (Len(seen) < MaxPlaces \/ TowardsSide) /\ updatePlayerPosition
    \/ \E m \in GeneratedMazes(gameConfig.mazeSize) : restart(m)
    \/ \E size \in MazeSizeArgs :
           \E m \in GeneratedMazes(size) : setMazeSize(size, m)

SpecGame == InitGame /\ [][NextGame]_vars


-----------------------------------------------------------------------------
(* Claims checked under SpecGame *)

IsInit(c) == c.op \in {"restart", "setMazeSize"}
IsFrame(c) == c.op = "updatePlayerPosition"
Previous(p) == <<p.prevX, p.prevY>>
Position(p) == <<p.x, p.y>>

\* C12: a frame whose candidate canMoveTo rejects, or that has no directional
\* input, changes nothing (position, previous position, visited and explored
\* cells, the visible sets and the cache of the raycaster), calls no listener
\* and returns false; and outside init the previous position changes only in
\* an accepted frame, to the position held just before it.
MoveAtomicity ==
    [][/\ (IsFrame(call') /\ ~Accepted) =>
              /\ ~call'.returned
              /\ notified' = <<>>
              /\ UNCHANGED <<player, visitedCells, exploredCells, visiblePoints,
                             visibleCells, heap, cache>>
       /\ (~IsInit(call') /\ Previous(player') # Previous(player)) =>
              /\ IsFrame(call') /\ call'.returned /\ Accepted
              /\ Previous(player') = Position(player)]_vars

\* C12 witness: a frame with a directional input was refused while the game
\* was running, after the player had moved away from the start
FrameRefusedAfterMove ==
    /\ IsFrame(call) /\ ~call.returned
    /\ state.isRunning /\ ~state.isPaused
    /\ MoveVector(moveInput) # [dx |-> 0, dy |-> 0]
    /\ Previous(player) # Position(player)

\* C13: between two initialisations the explored and the visited set only
\* grow; only init (restart, setMazeSize) takes cells out, and it leaves the
\* start cell in both.
Monotonicity ==
    [][/\ ~IsInit(call') =>
              /\ exploredCells \subseteq exploredCells'
              /\ visitedCells \subseteq visitedCells'
       /\ IsInit(call') =>
              /\ StartCell(maze') \in exploredCells'
              /\ StartCell(maze') \in visitedCells']_vars

\* C13 witness: a frame has just been accepted with two cells visited and
\* more than two explored
SetsGrew ==
    /\ IsFrame(call) /\ call.returned
    /\ Cardinality(visitedCells) >= 2
    /\ Cardinality(exploredCells) > 2

\* the onCellExplored calls a listener got, in order
CellCalls(log, i) ==
    SelectSeq(log, LAMBDA n : n.event = "onCellExplored" /\ n.listener = i)

\* C14: in every visibility update (an accepted frame, or init) the visible
\* cells not yet explored are added to the explored set and each is announced
\* once to every listener, with totalExplored the size of the set right after
\* the insertion, so strictly increasing; no cell explored before is
\* announced.
DiscoveryNotification ==
    [][((IsFrame(call') /\ call'.returned) \/ call'.op = "restart") =>
           LET base == IF IsFrame(call') THEN exploredCells ELSE {StartCell(maze')}
               fresh == heap'[visibleCells'] \ base
           IN  /\ exploredCells' = base \cup heap'[visibleCells']
               /\ \A i \in DOMAIN eventListeners.onCellExplored :
                      LET calls == CellCalls(notified', i)
                      IN  /\ Len(calls) = Cardinality(fresh)
                          /\ {<<calls[k].data.x, calls[k].data.y>> :
                                  k \in DOMAIN calls} = fresh
                          /\ \A k \in DOMAIN calls :
                                 calls[k].data.totalExplored = Cardinality(base) + k]_vars

\* C14 witness: an accepted frame announced a cell while another visible cell,
\* explored before, was not announced
SomeAnnouncedSomeKnown ==
    /\ IsFrame(call) /\ call.returned
    /\ Len(CellCalls(notified, 1)) >= 1
    /\ Len(CellCalls(notified, 1)) < Cardinality(VisibleCellSet)

\* the calls of the log that handed some data of an event to listener i
Delivered(log, event, i) ==
    {log[k].data : k \in {j \in DOMAIN log : log[j].event = event /\ log[j].listener = i}}

\* C15: when a listener throws, the listeners after it are still called with
\* the same data, the discoveries that follow are still announced, the cells
\* stay in the explored set and the frame completes: the position is the
\* candidate and the frame returns true.
FaultIsolation ==
    [][(IsFrame(call') /\ Accepted) =>
           /\ call'.returned
           /\ Position(player') = <<Candidate.x, Candidate.y>>
           /\ heap'[visibleCells'] \subseteq exploredCells'
           /\ \A e \in DOMAIN eventListeners :
                  \A i \in DOMAIN eventListeners[e] :
                      Delivered(notified', e, i) = Delivered(notified', e, 1)
           /\ Delivered(notified', "onMove", 1) # {}
           /\ {<<d.x, d.y>> : d \in Delivered(notified', "onCellExplored", 1)}
                  = exploredCells' \ exploredCells]_vars

\* C15 witness: in an accepted frame a listener threw on onMove and on a
\* discovery, and the listener after it got a later discovery
ThrewAndWentOn ==
    /\ IsFrame(call) /\ call.returned
    /\ \E j, k \in DOMAIN notified :
           /\ j < k
           /\ notified[j].event = "onMove" /\ notified[j].threw
           /\ notified[k].event = "onCellExplored" /\ notified[k].listener = 2

VisitedInvariant ==
    CellAt(player.x, player.y, cellSize) \in visitedCells

\* C20 witness: a frame has moved the player into a cell that is not the
\* start cell
MovedToOtherCell ==
    /\ IsFrame(call) /\ call.returned
    /\ CellAt(player.x, player.y, cellSize) # StartCell(maze)


-----------------------------------------------------------------------------
(* SpecState: the Game of SpecGame under start, togglePause, changes of one *)
(* key, frames, restart, and victory and gameOver called at any time.      *)

StateKeys == {"right"}

NextState ==
    \/ start
    \/ togglePause
    \/ \E direction \in StateKeys, pressed \in BOOLEAN :
           setMoveInput(direction, pressed)
    \/ (Len(seen) < MaxPlaces \/ TowardsSide) /\ updatePlayerPosition
    \/ victory
    \/ gameOver
    \/ \E m \in GeneratedMazes(gameConfig.mazeSize) : restart(m)

SpecState == InitGame /\ [][NextState]_vars

IsReset(c) == c.op \in {"start", "restart", "setMazeSize"}
Gated == ~state.isRunning \/ state.isPaused \/ state.isGameOver

\* C21: a frame of a game that is not running, is paused or is over returns
\* false and changes nothing; victory and gameOver leave the game over and not
\* running, and while it is over no call other than start, restart or
\* setMazeSize (which restarts) changes the position, the visited set or the
\* explored set.
MovementGating ==
    [][/\ (IsFrame(call') /\ Gated) =>
              /\ ~call'.returned
              /\ notified' = <<>>
              /\ UNCHANGED <<raycastVars, gameConfig, player, exploredCells,
                              visitedCells, state, moveInput, eventListeners>>
       /\ call'.op \in {"victory", "gameOver"} =>
              state'.isGameOver /\ ~state'.isRunning
       /\ (state.isGameOver /\ ~IsReset(call')) =>
              UNCHANGED <<player, exploredCells, visitedCells>>]_vars

\* C21 witness: with a direction held towards a position the player could
\* take, a frame was refused in a game that is over
FrameRefusedWhenOver ==
    /\ IsFrame(call) /\ ~call.returned /\ state.isGameOver
    /\ MoveVector(moveInput) # [dx |-> 0, dy |-> 0]
    /\ canMoveTo(Candidate.x, Candidate.y, player.radius, gameConfig.mazeSize,
                 cellSize, maze)

\* C22: the game is paused only while it runs, never both runs and is over,
\* and is won only when it is over.
GameStateInvariant ==
    /\ state.isPaused => state.isRunning
    /\ ~(state.isRunning /\ state.isGameOver)
    /\ state.isVictory => state.isGameOver

-----------------------------------------------------------------------------
(* SpecCollision: canMoveTo asked about candidate centres on and around    *)
(* the walls of two 40-pixel grids, for a player of radius 8, 16 or 40 px. *)

\* a direct call of canMoveTo: it returns and changes nothing
canMoveToCall(x, y) ==
    /\ call' = [op |-> "canMoveTo", x |-> x, y |-> y,
                returned |-> canMoveTo(x, y, player.radius, gameConfig.mazeSize,
                                       cellSize, maze)]
    /\ notified' = <<>>
    /\ UNCHANGED <<raycastVars, gameConfig, player, exploredCells, visitedCells,
                    state, moveInput, eventListeners>>

\* a wall under the start cell; a wall right of the start cell and one under
\* the cell right of it
CollisionMazes ==
    {MakeMaze(GameSize, GameSize, {<<1, 0>>}, {}),
     MakeMaze(GameSize, GameSize, {<<1, 1>>}, {<<0, 1>>})}

CollisionOptions ==
    {[mazeSize |-> GameSize, moveSpeed |-> 0, playerRadius |-> r] :
        r \in {0, Px(16), Px(CellPx)}}

\* candidate coordinates (pixels): inside cells, on the grid lines, and at
\* distances around 8 and 16 from them
ProbePx == {4, 8, 16, 20, 24, 32, 33, 36, 40, 44, 47, 48, 56, 64, 72, 76}
Probes == {Px(k) : k \in ProbePx}

InitCollision ==
    \E o \in CollisionOptions, m \in CollisionMazes :
        GameConstructed(o, m, Px(CellPx), NoListeners)

\* one question to each new game: the answer does not depend on earlier ones
NextCollision ==
    /\ call.op = "constructor"
    /\ \E x \in Probes, y \in Probes : canMoveToCall(x, y)

SpecCollision == InitCollision /\ [][NextCollision]_vars

Dist(a, b) == IF a >= b THEN a - b ELSE b - a

\* some set wall of the grid, anywhere, is nearer than r to the point (x, y),
\* measured at right angles, and the point projects into the span of the wall
WallNear(x, y, r, m, cs) ==
    \/ \E w \in m.horizontal :
           /\ Dist(y, w[1] * cs) < r
           /\ w[2] * cs <= x /\ x <= (w[2] + 1) * cs
    \/ \E w \in m.vertical :
           /\ Dist(x, w[2] * cs) < r
           /\ w[1] * cs <= y /\ y <= (w[1] + 1) * cs

\* C11: for a candidate that passes the bounds test and a radius of at most
\* one cell, canMoveTo returns false exactly when some set wall of the whole
\* grid is nearer than the radius with the centre projecting into its span:
\* the scan of the nine cells around the candidate misses no such wall and
\* refuses for no other reason.
CollisionSoundness ==
    (/\ call.op = "canMoveTo"
     /\ player.radius <= cellSize
     /\ InBounds(call.x, call.y, player.radius, gameConfig.mazeSize, cellSize))
        => (call.returned <=> ~WallNear(call.x, call.y, player.radius, maze, cellSize))

\* C11 witness: an in-bounds candidate was refused for a wall that does not
\* belong to the cell the candidate is in
RefusedForNeighbourWall ==
    /\ call.op = "canMoveTo" /\ ~call.returned
    /\ InBounds(call.x, call.y, player.radius, gameConfig.mazeSize, cellSize)
    /\ ~checkWallCollisionOwnCell(call.x, call.y, player.radius, cellSize, maze)


-----------------------------------------------------------------------------
(* Game.hasLineOfSight *)

\* a loop that asks canMove about the steps along one axis only
RECURSIVE LosLoopAxisOnly(_, _, _, _, _, _, _, _, _, _, _, _, _)
LosLoopAxisOnly(m, currentX, currentY, err, dx, dy, sx, sy, x2, y2, queries, fuel, check) ==
    IF currentX = x2 /\ currentY = y2
    THEN [returned |-> TRUE, queries |-> queries, finished |-> TRUE]
    ELSE IF fuel = 0
    THEN [returned |-> FALSE, queries |-> queries, finished |-> FALSE]
    ELSE LET e2 == 2 * err
             nextX == IF e2 > -dy THEN currentX + sx ELSE currentX
             err1 == IF e2 > -dy THEN err - dy ELSE err
             nextY == IF e2 < dx THEN currentY + sy ELSE currentY
             err2 == IF e2 < dx THEN err1 + dx ELSE err1
             moveX == nextX - currentX
             moveY == nextY - currentY
             asked == Append(queries, <<currentX, currentY, moveX, moveY>>)
         IN  IF check /\ (moveX = 0 \/ moveY = 0)
                      /\ ~canMove(m, currentX, currentY, moveX, moveY)
             THEN [returned |-> FALSE, queries |-> asked, finished |-> TRUE]
             ELSE LosLoopAxisOnly(m, nextX, nextY, err2, dx, dy, sx, sy, x2, y2,
                                  asked, fuel - 1, check)

\* the loop of hasLineOfSight from the cell (currentX, currentY) with error
\* term err, after the canMove queries made so far.  check says whether the
\* loop asks canMove (it does) or only walks the line.  The loop has no
\* bound of its own: the model gives up, with finished false, after fuel
\* rounds.
RECURSIVE LosLoop(_, _, _, _, _, _, _, _, _, _, _, _, _)
LosLoop(m, currentX, currentY, err, dx, dy, sx, sy, x2, y2, queries, fuel, check) ==
    IF currentX = x2 /\ currentY = y2
    THEN [returned |-> TRUE, queries |-> queries, finished |-> TRUE]
    ELSE IF fuel = 0
    THEN [returned |-> FALSE, queries |-> queries, finished |-> FALSE]
    ELSE LET e2 == 2 * err
             nextX == IF e2 > -dy THEN currentX + sx ELSE currentX
             err1 == IF e2 > -dy THEN err - dy ELSE err
             nextY == IF e2 < dx THEN currentY + sy ELSE currentY
             err2 == IF e2 < dx THEN err1 + dx ELSE err1
             moveX == nextX - currentX
             moveY == nextY - currentY
             asked == Append(queries, <<currentX, currentY, moveX, moveY>>)
         IN  IF check /\ ~canMove(m, currentX, currentY, moveX, moveY)
             THEN [returned |-> FALSE, queries |-> asked, finished |-> TRUE]
             ELSE LosLoop(m, nextX, nextY, err2, dx, dy, sx, sy, x2, y2,
                          asked, fuel - 1, check)

LoopFuel == 12

LineOfSight(m, x1, y1, x2, y2, check) ==
    LosLoop(m, x1, y1, Dist(x2, x1) - Dist(y2, y1), Dist(x2, x1), Dist(y2, y1),
            IF x1 < x2 THEN 1 ELSE -1, IF y1 < y2 THEN 1 ELSE -1,
            x2, y2, <<>>, LoopFuel, check)

\* Game.hasLineOfSight: what it returns and the canMove queries it makes
hasLineOfSight(m, x1, y1, x2, y2) == LineOfSight(m, x1, y1, x2, y2, TRUE)

\* the pairs of consecutive cells of the line from (x1, y1) to (x2, y2), each
\* as the cell and the step that leaves it
Traversal(x1, y1, x2, y2) == LineOfSight(OpenMaze, x1, y1, x2, y2, FALSE)

\* a direct call of hasLineOfSight: it returns and changes nothing
hasLineOfSightCall(x1, y1, x2, y2) ==
    /\ \E r \in {hasLineOfSight(maze, x1, y1, x2, y2)} :
           call' = [op |-> "hasLineOfSight", x1 |-> x1, y1 |-> y1, x2 |-> x2,
                    y2 |-> y2, returned |-> r.returned, queries |-> r.queries,
                    finished |-> r.finished]
    /\ notified' = <<>>
    /\ UNCHANGED <<raycastVars, gameConfig, player, exploredCells, visitedCells,
                    state, moveInput, eventListeners>>

-----------------------------------------------------------------------------
(* SpecSight: hasLineOfSight asked about every pair of cells of the grid   *)
(* and of the ring of cells around it, in two mazes.                       *)

\* two mazes as generate makes them, every cell reachable by one route: rows
\* joined at alternate ends, and rows that branch off the first column
SerpentineMaze ==
    MakeMaze(GridSize, GridSize, {<<1, 0>>, <<1, 1>>, <<2, 1>>, <<2, 2>>, <<3, 0>>},
             {<<0, 3>>})
CombMaze ==
    MakeMaze(GridSize, GridSize, {<<1, 1>>, <<1, 2>>, <<2, 1>>, <<2, 2>>, <<3, 0>>},
             {<<0, 3>>})
SightMazes == {SerpentineMaze, CombMaze}
SightOptions == {[mazeSize |-> GridSize, moveSpeed |-> 0, playerRadius |-> 0]}
SightCoords == -1..GridSize

InitSight ==
    \E o \in SightOptions, m \in SightMazes :
        GameConstructed(o, m, Px(CellPx), NoListeners)

\* one question to each new game: the answer does not depend on earlier ones
NextSight ==
    /\ call.op = "constructor"
    /\ \E x1 \in SightCoords, y1 \in SightCoords, x2 \in SightCoords,
          y2 \in SightCoords : hasLineOfSightCall(x1, y1, x2, y2)

SpecSight == InitSight /\ [][NextSight]_vars

Passable(m, q) == canMove(m, q[1], q[2], q[3], q[4])

\* C16: hasLineOfSight returns for every pair of cells, after at most
\* max(dx, dy) rounds; the line itself reaches the target in exactly that many
\* steps; the call returns true exactly when every pair of consecutive cells
\* of the line is passable, and otherwise has asked canMove about the pairs
\* up to the first that is not and no further; for source = target it
\* returns true and asks nothing.
LineOfSightCorrect ==
    call.op = "hasLineOfSight" =>
        LET line == Traversal(call.x1, call.y1, call.x2, call.y2)
            steps == Max(Dist(call.x2, call.x1), Dist(call.y2, call.y1))
            asked == call.queries
        IN  /\ call.finished /\ line.finished
            /\ Len(line.queries) = steps
            /\ Len(asked) <= steps
            /\ asked = SubSeq(line.queries, 1, Len(asked))
            /\ \A i \in 1..(Len(asked) - 1) : Passable(maze, asked[i])
            /\ call.returned <=>
                   \A i \in DOMAIN line.queries : Passable(maze, line.queries[i])
            /\ ~call.returned => asked # <<>> /\ ~Passable(maze, Last(asked))
            /\ (call.x1 = call.x2 /\ call.y1 = call.y2) =>
                   call.returned /\ asked = <<>>

\* C16 witness: a line of sight was refused at a step that is not its first
\* and not its last
BlockedMidway ==
    /\ call.op = "hasLineOfSight" /\ ~call.returned
    /\ Len(call.queries) > 1
    /\ Len(call.queries) < Max(Dist(call.x2, call.x1), Dist(call.y2, call.y1))


-----------------------------------------------------------------------------
(* SpecCross: one Game with a radius of 7 px and a speed of 13 px on the   *)
(* maze of SpecGame, under start, any key changes and frames.  The player  *)
(* is followed along one walk from the start cell: a frame is taken when   *)
(* its candidate is a place of the walk or a place on the far side of a    *)
(* wall line, and while fewer than MaxCross places have been visited.      *)

CrossOptions ==
    {[mazeSize |-> GameSize, moveSpeed |-> Px(13), playerRadius |-> Px(7)]}
CrossKeys == {"left", "down", "right"}
MaxCross == 7

Held(keys) == [k \in DOMAIN NoInput |-> k \in keys]
CrossWalk ==
    <<Held({"left", "down"}), Held({"right"}), Held({"right"}), Held({"right"}),
      Held({"left", "down"})>>

\* the candidate of a frame at p under the held keys
Step(p, input) ==
    [x |-> p.x + (MoveVector(input).dx * gameConfig.moveSpeed) \div 1000,
     y |-> p.y + (MoveVector(input).dy * gameConfig.moveSpeed) \div 1000]

RECURSIVE Walked(_, _)
Walked(p, inputs) ==
    IF inputs = <<>> THEN {p}
    ELSE {p} \cup Walked(Step(p, Head(inputs)), Tail(inputs))

CrossPlaces ==
    Walked([x |-> StartX(maze, cellSize), y |-> StartY(maze, cellSize)], CrossWalk)

\* the move from (x0, y0) to (x1, y1), along an axis or at 45 degrees to
\* them, passes from one side of a set wall of m to the other at a point of
\* the wall's span
Crosses(x0, y0, x1, y1, m, cs) ==
    \/ \E w \in m.horizontal :
           LET wallY == w[1] * cs
               at == IF x1 > x0 THEN x0 + Dist(wallY, y0)
                     ELSE IF x1 < x0 THEN x0 - Dist(wallY, y0) ELSE x0
           IN  /\ (y0 < wallY /\ wallY < y1) \/ (y1 < wallY /\ wallY < y0)
               /\ at >= w[2] * cs /\ at <= (w[2] + 1) * cs
    \/ \E w \in m.vertical :
           LET wallX == w[2] * cs
               at == IF y1 > y0 THEN y0 + Dist(wallX, x0)
                     ELSE IF y1 < y0 THEN y0 - Dist(wallX, x0) ELSE y0
           IN  /\ (x0 < wallX /\ wallX < x1) \/ (x1 < wallX /\ wallX < x0)
               /\ at >= w[1] * cs /\ at <= (w[1] + 1) * cs

OnWalk ==
    \/ Candidate \in CrossPlaces
    \/ Crosses(player.x, player.y, Candidate.x, Candidate.y, maze, cellSize)

InitCross ==
    \E o \in CrossOptions :
        \E m \in GeneratedMazes(GameConstructor(o).mazeSize) :
            GameConstructed(o, m, Px(CellPx), NoListeners)

NextCross ==
    \/ start
    \/ \E direction \in CrossKeys, pressed \in BOOLEAN :
           setMoveInput(direction, pressed)
    \/ (Len(seen) < MaxCross /\ OnWalk) /\ updatePlayerPosition

SpecCross == InitCross /\ [][NextCross]_vars

\* C23: with moveSpeed < 2 * radius, no accepted frame takes the player's
\* centre from one side of a set wall segment to the other through the
\* segment's span.
NoWallCrossing ==
    [][(IsFrame(call') /\ call'.returned
            /\ gameConfig.moveSpeed < 2 * player.radius) =>
           ~Crosses(player.x, player.y, player'.x, player'.y, maze, cellSize)]_vars


-----------------------------------------------------------------------------
(* SpecFresh: the Game of SpecGame, built on one maze and restarted on that *)
(* maze or on another in which the start cell sees more, with and without  *)
(* callbacks, under start, togglePause, changes of one key, frames and     *)
(* restart.                                                                *)

FirstMaze(size) == MakeMaze(size, size, {<<1, 0>>}, {})
OtherMaze(size) == MakeMaze(size, size, {<<1, 1>>}, {})
FreshMazes(size) == {FirstMaze(size), OtherMaze(size)}

FreshKeys == {"right"}
FreshListeners == ListenerSets \cup {NoListeners}

InitFresh ==
    \E o \in GameOptions, ls \in FreshListeners :
        GameConstructed(o, FirstMaze(GameConstructor(o).mazeSize), Px(CellPx), ls)

NextFresh ==
    \/ start
    \/ togglePause
    \/ \E direction \in FreshKeys, pressed \in BOOLEAN :
           setMoveInput(direction, pressed)
    \/ Len(seen) < MaxPlaces /\ updatePlayerPosition
    \/ \E m \in FreshMazes(gameConfig.mazeSize) : restart(m)

SpecFresh == InitFresh /\ [][NextFresh]_vars

\* the points a new RaycastSystem of the Game computes at (x, y) in maze m
FreshView(x, y, m) ==
    Flatten(Sweep(Constructor(GameRaycastOptions), x, y, m, cellSize))

\* C24: the first update of a restarted game is a miss of an empty cache and
\* its points and cells are those computed in the new maze; so are the
\* points of every accepted frame after it.
CacheFreshness ==
    [][/\ call'.op = "restart" =>
              /\ lastOp'.op = "update" /\ ~lastOp'.hit
              /\ Len(cache') = 1
              /\ visiblePoints' = FreshView(player'.x, player'.y, maze')
              /\ heap'[visibleCells'] = CellsOf(visiblePoints', cellSize)
       /\ (IsFrame(call') /\ call'.returned) =>
              visiblePoints' = FreshView(player'.x, player'.y, maze')]_vars

\* C24 witness: the game was restarted on the other maze, where the view
\* from the start position is not the one cached in the first maze
RestartedOnOtherMaze ==
    /\ call.op = "restart"
    /\ maze = OtherMaze(gameConfig.mazeSize)
    /\ lastOp.key = CacheKey(StartX(maze, cellSize), StartY(maze, cellSize))
    /\ visiblePoints # FreshView(player.x, player.y, FirstMaze(gameConfig.mazeSize))

====
